---- MODULE Spec2Model ----
(***************************************************************************)
(* A model of server/server.js: an Express relay in front of the APS       *)
(* (Autodesk Platform Services) HTTP API.  Strings are sequences of        *)
(* one-character strings, byte strings are sequences of numbers, and an     *)
(* HTTP call is one entry of a per-request log.                             *)
(***************************************************************************)
EXTENDS Integers, Sequences, FiniteSets, TLC

VARIABLES
    env,          \* process.env as read at start-up (lines 12-19)
    pc,           \* pc[r]: where request r is in the middleware chain
    req,          \* req[r]: the incoming request (route, Origin header, file, :urn)
    calls,        \* calls[r]: the upstream calls issued for r, in issue order
    resp,         \* resp[r]: the response sent to the client (status 0: none yet)
    handlerRan,   \* handlerRan[r]: a route handler was entered for r
    bucketExists, \* the upstream's container, for the stateful upstream
    clock,        \* Date.now()
    locals,       \* locals[r]: tokenData, objectId and urn of the handler (lines 174-177)
    stored        \* the object names uploadToBucket built: [orig, at, objectName]

vars ==
    <<env, pc, req, calls, resp, handlerRan, bucketExists, clock, locals, stored>>

----------------------------------------------------------------------------
(* Bounds *)

MaxStored == 2
MaxClock == 10
MaxNameLen == 2

----------------------------------------------------------------------------
(* Characters and strings *)

Digits == <<"0", "1", "2", "3", "4", "5", "6", "7", "8", "9">>

DigitChars == {Digits[i] : i \in 1..10}

LowerChars == {"a", "b", "c", "d", "e", "f", "g", "h", "i", "j", "k", "l", "m",
               "n", "o", "p", "q", "r", "s", "t", "u", "v", "w", "x", "y", "z"}

UpperChars == {"A", "B", "C", "D", "E", "F", "G", "H", "I", "J", "K", "L", "M",
               "N", "O", "P", "Q", "R", "S", "T", "U", "V", "W", "X", "Y", "Z"}

\* the complement of the character class of line 111: [^a-zA-Z0-9._-]
NameChars == LowerChars \cup UpperChars \cup DigitChars \cup {".", "_", "-"}

\* String.prototype.replace(/[^a-zA-Z0-9._-]/g, '_') (line 111)
SafeName(originalname) ==
    [i \in 1..Len(originalname) |->
        IF originalname[i] \in NameChars THEN originalname[i] ELSE "_"]

\* the decimal numeral a template literal gives a non-negative integer (line 112)
RECURSIVE ToDigits(_)
ToDigits(n) ==
    IF n < 10 THEN <<Digits[n + 1]>>
    ELSE Append(ToDigits(n \div 10), Digits[(n % 10) + 1])

\* a variant that drops the timestamp
ObjectNameNoStamp(now, originalname) == <<"0", "-">> \o SafeName(originalname)

\* `${Date.now()}-${safeName}` (lines 111-112)
ObjectName(now, originalname) ==
    ToDigits(now) \o <<"-">> \o SafeName(originalname)

----------------------------------------------------------------------------
(* Base64, as Buffer.from(objectId).toString('base64') computes it.  An     *)
(* object identifier is a sequence of ASCII codes, which is also its UTF-8  *)
(* byte sequence.                                                           *)

Base64Alphabet ==
    <<"A", "B", "C", "D", "E", "F", "G", "H", "I", "J", "K", "L", "M",
      "N", "O", "P", "Q", "R", "S", "T", "U", "V", "W", "X", "Y", "Z",
      "a", "b", "c", "d", "e", "f", "g", "h", "i", "j", "k", "l", "m",
      "n", "o", "p", "q", "r", "s", "t", "u", "v", "w", "x", "y", "z",
      "0", "1", "2", "3", "4", "5", "6", "7", "8", "9", "+", "/">>

Sextet(n, k) == Base64Alphabet[((n \div (64 ^ (3 - k))) % 64) + 1]

RECURSIVE Base64(_)
Base64(bytes) ==
    IF Len(bytes) = 0 THEN <<>>
    ELSE IF Len(bytes) = 1 THEN
        LET n == bytes[1] * 65536
        IN  <<Sextet(n, 0), Sextet(n, 1), "=", "=">>
    ELSE IF Len(bytes) = 2 THEN
        LET n == bytes[1] * 65536 + bytes[2] * 256
        IN  <<Sextet(n, 0), Sextet(n, 1), Sextet(n, 2), "=">>
    ELSE
        LET n == bytes[1] * 65536 + bytes[2] * 256 + bytes[3]
        IN  <<Sextet(n, 0), Sextet(n, 1), Sextet(n, 2), Sextet(n, 3)>>
            \o Base64(SubSeq(bytes, 4, Len(bytes)))

\* a variant that leaves out the '=' padding
RECURSIVE Base64Unpadded(_)
Base64Unpadded(bytes) ==
    IF Len(bytes) = 0 THEN <<>>
    ELSE IF Len(bytes) = 1 THEN
        LET n == bytes[1] * 65536
        IN  <<Sextet(n, 0), Sextet(n, 1)>>
    ELSE IF Len(bytes) = 2 THEN
        LET n == bytes[1] * 65536 + bytes[2] * 256
        IN  <<Sextet(n, 0), Sextet(n, 1), Sextet(n, 2)>>
    ELSE
        LET n == bytes[1] * 65536 + bytes[2] * 256 + bytes[3]
        IN  <<Sextet(n, 0), Sextet(n, 1), Sextet(n, 2), Sextet(n, 3)>>
            \o Base64Unpadded(SubSeq(bytes, 4, Len(bytes)))

UrnOfUnpadded(objectId) == Base64Unpadded(objectId)

\* const urn = Buffer.from(objectId).toString('base64') (line 177)
UrnOf(objectId) == Base64(objectId)

----------------------------------------------------------------------------
(* The allow-list (lines 21-36) *)

\* String.prototype.split(',')
RECURSIVE Split(_, _)
Split(s, sep) ==
    IF \E i \in 1..Len(s) : s[i] = sep
    THEN LET i == CHOOSE k \in 1..Len(s) :
                      s[k] = sep /\ \A j \in 1..(k - 1) : s[j] # sep
         IN  <<SubSeq(s, 1, i - 1)>> \o Split(SubSeq(s, i + 1, Len(s)), sep)
    ELSE <<s>>

\* String.prototype.trim()
RECURSIVE Trim(_)
Trim(s) ==
    IF Len(s) = 0 THEN s
    ELSE IF s[1] = " " THEN Trim(Tail(s))
    ELSE IF s[Len(s)] = " " THEN Trim(SubSeq(s, 1, Len(s) - 1))
    ELSE s

\* APS_ALLOWED_ORIGINS.split(',').map(origin => origin.trim()).filter(Boolean)
allowedOrigins ==
    LET parts == Split(env.APS_ALLOWED_ORIGINS, ",")
        trimmed == [i \in 1..Len(parts) |-> Trim(parts[i])]
        NonEmpty(x) == Len(x) > 0
    IN  SelectSeq(trimmed, NonEmpty)

Includes(list, x) == \E i \in 1..Len(list) : list[i] = x

\* a variant that lets every origin in
OriginAllowedAlways(origin) == TRUE

\* the cors origin callback: TRUE for callback(null, true), FALSE for
\* callback(new Error('CORS not allowed')).  The empty origin stands for an
\* absent (undefined) or empty Origin header, both falsy at line 28.
OriginAllowed(origin) ==
    IF Len(origin) = 0 \/ Len(allowedOrigins) = 0 THEN TRUE
    ELSE IF Includes(allowedOrigins, origin) THEN TRUE
    ELSE FALSE

----------------------------------------------------------------------------
(* URL escaping and JSON *)

\* encodeURIComponent (lines 115 and 190), on the characters the model uses
EncodeChar(c) ==
    IF c \in NameChars THEN <<c>>
    ELSE IF c = "+" THEN <<"%", "2", "B">>
    ELSE IF c = "/" THEN <<"%", "2", "F">>
    ELSE IF c = "=" THEN <<"%", "3", "D">>
    ELSE <<"%", "2", "0">>

RECURSIVE EncodeURIComponent(_)
EncodeURIComponent(s) ==
    IF Len(s) = 0 THEN <<>>
    ELSE EncodeChar(s[1]) \o EncodeURIComponent(Tail(s))

\* A response body is a sequence of tokens; " " is insignificant whitespace.
\* The JSON texts of the model are the one-member objects { key : value }.
JsonKeys == {"status"}

JsonStrings == {"inprogress", "success", "failed"}

\* Response.json() (line 194): parse the body text, or throw a SyntaxError
JsonParse(text) ==
    LET NotSpace(t) == t # " "
        t == SelectSeq(text, NotSpace)
    IN  IF /\ Len(t) = 5
           /\ t[1] = "{" /\ t[2] \in JsonKeys /\ t[3] = ":"
           /\ t[4] \in JsonStrings /\ t[5] = "}"
        THEN [ok |-> TRUE, key |-> t[2], val |-> t[4]]
        ELSE [ok |-> FALSE, key |-> "", val |-> ""]

\* JSON.stringify, as res.json(data) serialises (line 195)
JsonStringify(data) == <<"{", data.key, ":", data.val, "}">>

\* Express sends no body with a 204 or a 304
ExpressBody(status, text) == IF status \in {204, 304} THEN <<>> ELSE text

----------------------------------------------------------------------------
(* Errors and responses *)

NoMsg == [prefix |-> "", status |-> 0, text |-> "", names |-> <<>>]

\* `${prefix}: ${res.status} ${text}` (lines 68, 88, 106, 128, 155)
UpstreamMsg(prefix, status, text) ==
    [prefix |-> prefix, status |-> status, text |-> text, names |-> <<>>]

PlainMsg(prefix) == [NoMsg EXCEPT !.prefix = prefix]

\* an Error: status 0 is an Error with no status property
Err(status, message) == [status |-> status, message |-> message]

NoResp ==
    [status |-> 0, kind |-> "none", error |-> NoMsg, urn |-> <<>>,
     token |-> "", body |-> <<>>]

\* the error-handling middleware (lines 201-204)
ErrorHandler(err) ==
    [NoResp EXCEPT !.status = IF err.status # 0 THEN err.status ELSE 500,
                   !.kind = "error",
                   !.error = err.message]

\* a variant that takes a 3xx or 4xx for a success
ResOkOrClientError(status) == status \in 200..499

\* res.ok
ResOk(status) == status \in 200..299

\* a variant that does not look at APS_BUCKET_KEY
MissingNoBucketKey ==
    (IF ~env.APS_CLIENT_ID THEN <<"APS_CLIENT_ID">> ELSE <<>>)
    \o (IF ~env.APS_CLIENT_SECRET THEN <<"APS_CLIENT_SECRET">> ELSE <<>>)

\* the missing list of requireEnv (lines 39-42)
Missing ==
    (IF ~env.APS_CLIENT_ID THEN <<"APS_CLIENT_ID">> ELSE <<>>)
    \o (IF ~env.APS_CLIENT_SECRET THEN <<"APS_CLIENT_SECRET">> ELSE <<>>)
    \o (IF ~env.APS_BUCKET_KEY THEN <<"APS_BUCKET_KEY">> ELSE <<>>)

\* the Error requireEnv throws (lines 43-48)
EnvError ==
    Err(500, [NoMsg EXCEPT !.prefix = "Missing env vars", !.names = Missing])

----------------------------------------------------------------------------
(* Requests and upstream replies *)

Requests == {1, 2}

Routes == {"token", "upload-translate", "manifest"}

\* Origin headers; <<>> is an absent or empty header
Origins == {<<>>, <<"a">>, <<"b">>}

\* values of APS_ALLOWED_ORIGINS: "", "a", " a ,b", " , "
RawAllowLists ==
    {<<>>, <<"a">>, <<" ", "a", " ", ",", "b">>, <<" ", ",", " ">>}

NoFile == [present |-> FALSE, originalname |-> <<>>]

\* multer's req.file; multer drops a file part that has no filename
Files == {[present |-> TRUE, originalname |-> <<"m", " ", "1", ".", "d">>]}

\* object identifiers of the upstream: "abc", "a", "ab"
ObjectIds == {<<97, 98, 99>>, <<97>>, <<97, 98>>}

ErrorTexts == {"denied", "busy"}

Reply(status, text, objectId, body) ==
    [status |-> status, text |-> text, objectId |-> objectId, body |-> body]

OkReplies(statuses) == {Reply(s, "", <<>>, <<>>) : s \in statuses}

ErrReplies(statuses) == {Reply(s, t, <<>>, <<>>) : s \in statuses, t \in ErrorTexts}

TokenReplies == OkReplies({200}) \cup ErrReplies({401})

DetailsReplies == OkReplies({200, 204}) \cup ErrReplies({404, 403})

CreateReplies == OkReplies({200}) \cup ErrReplies({409})

UploadReplies ==
    {Reply(200, "", o, <<>>) : o \in ObjectIds} \cup ErrReplies({500})

JobReplies == OkReplies({200, 201}) \cup ErrReplies({400})

ManifestBodies ==
    {<<"{", "status", ":", "inprogress", "}">>,
     <<"{", " ", "status", ":", " ", "success", "}">>,
     <<"<", "html", ">">>}

\* a 204 or 304 response has a null body
ManifestReplies ==
    {Reply(s, "", <<>>, b) : s \in {200, 202, 404}, b \in ManifestBodies}
    \cup {Reply(204, "", <<>>, <<>>)}

\* an upstream call, in flight while its status is 0
Call(step, arg) ==
    [step |-> step, status |-> 0, arg |-> arg, text |-> "", objectId |-> <<>>,
     body |-> <<>>]

\* the log of r once its call in flight got `reply`
Replied(r, reply) ==
    [calls[r] EXCEPT ![Len(calls[r])] =
        [@ EXCEPT !.status = reply.status, !.text = reply.text,
                  !.objectId = reply.objectId, !.body = reply.body]]

NoLocals == [tokenData |-> "", objectId |-> <<>>, urn |-> <<>>]

----------------------------------------------------------------------------
(* Steps of a request.  Each action runs the handler from one suspension    *)
(* point (an await on a fetch) to the next, or to the response.             *)

\* res.status(..).json(..), or the error middleware: the response is sent
Finish(r, response) ==
    /\ pc' = [pc EXCEPT ![r] = "done"]
    /\ resp' = [resp EXCEPT ![r] = response]

\* fetch(..): log `call` after the log `log` of r and suspend at `at`
Fetch(r, log, call, at) ==
    /\ calls' = [calls EXCEPT ![r] = Append(log, call)]
    /\ pc' = [pc EXCEPT ![r] = at]
    /\ UNCHANGED resp

\* a request arrives; req.file is what multer made of the multipart body
Receive(r) ==
    /\ pc[r] = "idle"
    /\ \E route \in Routes, origin \in Origins, file \in Files \cup {NoFile},
          urn \in {UrnOf(o) : o \in {<<97>>}} :
          /\ file.present => route = "upload-translate"
          /\ req' = [req EXCEPT ![r] =
                        [route |-> route, origin |-> origin, file |-> file,
                         urn |-> IF route = "manifest" THEN urn ELSE <<>>]]
    /\ pc' = [pc EXCEPT ![r] = "cors"]
    /\ UNCHANGED <<env, calls, resp, handlerRan, bucketExists, clock, locals, stored>>

\* app.use(cors({ origin })) (lines 26-36): next() or next(err)
CorsMiddleware(r) ==
    /\ pc[r] = "cors"
    /\ IF OriginAllowed(req[r].origin)
       THEN pc' = [pc EXCEPT ![r] = "route"] /\ UNCHANGED resp
       ELSE Finish(r, ErrorHandler(Err(0, PlainMsg("CORS not allowed"))))
    /\ UNCHANGED <<env, req, calls, handlerRan, bucketExists, clock, locals, stored>>

\* getAccessToken up to its fetch (lines 51-64)
StartGetAccessToken(r) ==
    IF Len(Missing) > 0
    THEN Finish(r, ErrorHandler(EnvError)) /\ UNCHANGED calls
    ELSE Fetch(r, calls[r], Call("token", <<>>), "token")

\* a variant that skips the check
FileMissingNever(r) == FALSE

\* if (!req.file) (line 170)
FileMissing(r) == ~req[r].file.present

\* GET /api/aps/token (lines 159-161)
TokenRoute(r) ==
    /\ pc[r] = "route" /\ req[r].route = "token"
    /\ handlerRan' = [handlerRan EXCEPT ![r] = TRUE]
    /\ StartGetAccessToken(r)
    /\ UNCHANGED <<env, req, bucketExists, clock, locals, stored>>

\* POST /api/aps/upload-translate (lines 168-174)
UploadTranslateRoute(r) ==
    /\ pc[r] = "route" /\ req[r].route = "upload-translate"
    /\ handlerRan' = [handlerRan EXCEPT ![r] = TRUE]
    /\ IF FileMissing(r)
       THEN /\ Finish(r, [NoResp EXCEPT !.status = 400, !.kind = "error",
                                         !.error = PlainMsg("No file uploaded.")])
            /\ UNCHANGED calls
       ELSE StartGetAccessToken(r)
    /\ UNCHANGED <<env, req, bucketExists, clock, locals, stored>>

\* GET /api/aps/manifest/:urn (lines 186-188)
ManifestRoute(r) ==
    /\ pc[r] = "route" /\ req[r].route = "manifest"
    /\ handlerRan' = [handlerRan EXCEPT ![r] = TRUE]
    /\ StartGetAccessToken(r)
    /\ UNCHANGED <<env, req, bucketExists, clock, locals, stored>>

\* a failed upstream call is thrown to the error middleware
Throw(r, reply, err) ==
    /\ calls' = [calls EXCEPT ![r] = Replied(r, reply)]
    /\ Finish(r, ErrorHandler(err))
    /\ UNCHANGED locals

\* the status of the Error a failed token call throws (line 69)
TokenErrorStatus(status) == status

\* the status of the Error the other failed calls throw (lines 88, 106, 128,
\* 155): none
PlainErrorStatus(status) == 0

\* uploadToBucket up to its fetch (lines 110-124)
StartUpload(r, reply) ==
    Fetch(r, Replied(r, reply),
          Call("upload",
               EncodeURIComponent(ObjectName(clock, req[r].file.originalname))),
          "upload")

\* the token call returns (lines 66-73), and the handler goes on
TokenResponse(r, reply) ==
    /\ pc[r] = "token"
    /\ IF ~ResOk(reply.status)
       THEN Throw(r, reply,
                  Err(TokenErrorStatus(reply.status),
                      UpstreamMsg("Token request failed", reply.status, reply.text)))
       ELSE /\ locals' = [locals EXCEPT ![r].tokenData = "bundle"]
            /\ IF req[r].route = "token"
               THEN \* res.json(token) (line 162)
                    /\ calls' = [calls EXCEPT ![r] = Replied(r, reply)]
                    /\ Finish(r, [NoResp EXCEPT !.status = 200, !.kind = "token",
                                                 !.token = "bundle"])
               ELSE IF req[r].route = "upload-translate"
               THEN \* ensureBucket up to its first fetch (lines 76-80)
                    Fetch(r, Replied(r, reply), Call("details", <<>>), "details")
               ELSE \* the manifest fetch (lines 189-192)
                    Fetch(r, Replied(r, reply),
                          Call("manifest", EncodeURIComponent(req[r].urn)),
                          "manifest")
    /\ UNCHANGED <<env, req, handlerRan, bucketExists, clock, stored>>

\* a variant that creates after every details call that is not ok
CreateUnlessOk(status) == TRUE

\* if (details.status !== 404) (line 86), for a details call that is not ok
CreateOn(status) == status = 404

\* the details call returns (lines 82-102)
DetailsResponse(r, reply) ==
    /\ pc[r] = "details"
    /\ IF ResOk(reply.status)
       THEN StartUpload(r, reply) /\ UNCHANGED locals
       ELSE IF ~CreateOn(reply.status)
       THEN Throw(r, reply,
                  Err(PlainErrorStatus(reply.status),
                      UpstreamMsg("Bucket check failed", reply.status, reply.text)))
       ELSE Fetch(r, Replied(r, reply), Call("create", <<>>), "create")
            /\ UNCHANGED locals
    /\ UNCHANGED <<env, req, handlerRan, clock, stored>>

\* the create call returns (lines 104-108), then uploadToBucket starts
CreateResponse(r, reply) ==
    /\ pc[r] = "create"
    /\ IF ~ResOk(reply.status)
       THEN Throw(r, reply,
                  Err(PlainErrorStatus(reply.status),
                      UpstreamMsg("Bucket create failed", reply.status, reply.text)))
       ELSE StartUpload(r, reply) /\ UNCHANGED locals
    /\ UNCHANGED <<env, req, handlerRan, clock, stored>>

\* the upload call returns (lines 126-132), then lines 177 and 136-151
UploadResponse(r, reply) ==
    /\ pc[r] = "upload"
    /\ IF ~ResOk(reply.status)
       THEN Throw(r, reply,
                  Err(PlainErrorStatus(reply.status),
                      UpstreamMsg("Upload failed", reply.status, reply.text)))
       ELSE LET urn == UrnOf(reply.objectId)
            IN  /\ locals' = [locals EXCEPT ![r].objectId = reply.objectId,
                                            ![r].urn = urn]
                /\ Fetch(r, Replied(r, reply), Call("job", urn), "job")
    /\ UNCHANGED <<env, req, handlerRan, bucketExists, clock, stored>>

\* the job call returns (lines 153-156), then res.json({ urn }) (line 180)
JobResponse(r, reply) ==
    /\ pc[r] = "job"
    /\ IF ~ResOk(reply.status)
       THEN Throw(r, reply,
                  Err(PlainErrorStatus(reply.status),
                      UpstreamMsg("Translate failed", reply.status, reply.text)))
       ELSE /\ calls' = [calls EXCEPT ![r] = Replied(r, reply)]
            /\ Finish(r, [NoResp EXCEPT !.status = 200, !.kind = "urn",
                                         !.urn = locals[r].urn])
            /\ UNCHANGED locals
    /\ UNCHANGED <<env, req, handlerRan, bucketExists, clock, stored>>

\* a variant that always answers 200
RelayStatusOk(status) == 200

\* res.status(result.status) (line 195)
RelayStatus(status) == status

\* the manifest call returns (lines 194-195)
ManifestResponse(r, reply) ==
    /\ pc[r] = "manifest"
    /\ LET data == JsonParse(reply.body)
       IN  IF ~data.ok
           THEN Throw(r, reply, Err(0, PlainMsg("SyntaxError")))
           ELSE /\ calls' = [calls EXCEPT ![r] = Replied(r, reply)]
                /\ Finish(r, [NoResp EXCEPT
                                !.status = RelayStatus(reply.status),
                                !.kind = "manifest",
                                !.body = ExpressBody(RelayStatus(reply.status),
                                                     JsonStringify(data))])
                /\ UNCHANGED locals
    /\ UNCHANGED <<env, req, handlerRan, bucketExists, clock, stored>>

----------------------------------------------------------------------------
(* The upstream.  Under Spec it may answer every call with any reply; under *)
(* SpecRace its container is stateful: details answers 200 iff it exists,   *)
(* create makes it or answers 409.                                          *)

Token(r) == \E reply \in TokenReplies : TokenResponse(r, reply)

Details(r) ==
    /\ \E reply \in DetailsReplies : DetailsResponse(r, reply)
    /\ UNCHANGED bucketExists

Create(r) ==
    /\ \E reply \in CreateReplies : CreateResponse(r, reply)
    /\ UNCHANGED bucketExists

Upload(r) == \E reply \in UploadReplies : UploadResponse(r, reply)

Job(r) == \E reply \in JobReplies : JobResponse(r, reply)

Manifest(r) == \E reply \in ManifestReplies : ManifestResponse(r, reply)

ContainerDetails(r) ==
    /\ DetailsResponse(r, IF bucketExists THEN Reply(200, "", <<>>, <<>>)
                          ELSE Reply(404, "absent", <<>>, <<>>))
    /\ UNCHANGED bucketExists

ContainerCreate(r) ==
    /\ CreateResponse(r, IF bucketExists THEN Reply(409, "conflict", <<>>, <<>>)
                         ELSE Reply(200, "", <<>>, <<>>))
    /\ bucketExists' = TRUE

----------------------------------------------------------------------------
(* uploadToBucket's object names over time (lines 111-112) *)

UploadAlphabet == {"a", " ", "."}

UploadNames ==
    UNION {[1..n -> UploadAlphabet] : n \in 1..MaxNameLen}

Tick ==
    /\ clock < MaxClock
    /\ clock' = clock + 1
    /\ UNCHANGED <<env, pc, req, calls, resp, handlerRan, bucketExists, locals, stored>>

BuildObjectName ==
    /\ Cardinality(stored) < MaxStored
    /\ \E originalname \in UploadNames :
          stored' = stored \cup
              {[orig |-> originalname, at |-> clock,
                objectName |-> ObjectName(clock, originalname)]}
    /\ UNCHANGED <<env, pc, req, calls, resp, handlerRan, bucketExists, clock, locals>>

----------------------------------------------------------------------------
(* Specifications *)

Envs ==
    [APS_CLIENT_ID : BOOLEAN, APS_CLIENT_SECRET : BOOLEAN,
     APS_BUCKET_KEY : BOOLEAN, APS_ALLOWED_ORIGINS : RawAllowLists]

InitRequests ==
    /\ pc = [r \in Requests |-> "idle"]
    /\ req = [r \in Requests |->
                [route |-> "token", origin |-> <<>>, file |-> NoFile, urn |-> <<>>]]
    /\ calls = [r \in Requests |-> <<>>]
    /\ resp = [r \in Requests |-> NoResp]
    /\ handlerRan = [r \in Requests |-> FALSE]
    /\ locals = [r \in Requests |-> NoLocals]
    /\ stored = {}

Init ==
    /\ env \in Envs
    /\ InitRequests
    /\ bucketExists = FALSE
    /\ clock = 9

Next ==
    \E r \in Requests :
        \/ Receive(r)
        \/ CorsMiddleware(r)
        \/ TokenRoute(r)
        \/ UploadTranslateRoute(r)
        \/ ManifestRoute(r)
        \/ Token(r)
        \/ Details(r)
        \/ Create(r)
        \/ Upload(r)
        \/ Job(r)
        \/ Manifest(r)

Spec == Init /\ [][Next]_vars

InitRace ==
    /\ env = [APS_CLIENT_ID |-> TRUE, APS_CLIENT_SECRET |-> TRUE,
              APS_BUCKET_KEY |-> TRUE, APS_ALLOWED_ORIGINS |-> <<>>]
    /\ InitRequests
    /\ bucketExists \in BOOLEAN
    /\ clock = 9

NextRace ==
    \E r \in Requests :
        \/ Receive(r)
        \/ CorsMiddleware(r)
        \/ TokenRoute(r)
        \/ UploadTranslateRoute(r)
        \/ ManifestRoute(r)
        \/ Token(r)
        \/ ContainerDetails(r)
        \/ ContainerCreate(r)
        \/ Upload(r)
        \/ Job(r)
        \/ Manifest(r)

SpecRace == InitRace /\ [][NextRace]_vars

InitUpload ==
    /\ env = [APS_CLIENT_ID |-> TRUE, APS_CLIENT_SECRET |-> TRUE,
              APS_BUCKET_KEY |-> TRUE, APS_ALLOWED_ORIGINS |-> <<>>]
    /\ InitRequests
    /\ bucketExists = FALSE
    /\ clock = 9

NextUpload == Tick \/ BuildObjectName

SpecUpload == InitUpload /\ [][NextUpload]_vars

----------------------------------------------------------------------------
(* Vocabulary of the properties *)

Done(r) == pc[r] = "done"

IsUpload(r) == pc[r] # "idle" /\ req[r].route = "upload-translate"

IsManifest(r) == pc[r] # "idle" /\ req[r].route = "manifest"

IsTokenRequest(r) == pc[r] # "idle" /\ req[r].route = "token"

Success(status) == status \in 200..299

Answered(c) == c.status # 0

\* a call that came back with a failure the handler does not recover from
Failed(c) ==
    Answered(c) /\ ~Success(c.status) /\ ~(c.step = "details" /\ c.status = 404)

StepsOf(r) == [i \in 1..Len(calls[r]) |-> calls[r][i].step]

HasCall(r, step) == \E i \in 1..Len(calls[r]) : calls[r][i].step = step

CallOf(r, step) ==
    calls[r][CHOOSE i \in 1..Len(calls[r]) : calls[r][i].step = step]

\* the origin of r passes the boundary guard
PassesGuard(r) ==
    \/ Len(req[r].origin) = 0
    \/ Len(allowedOrigins) = 0
    \/ Includes(allowedOrigins, req[r].origin)

RejectedByGuard(r) ==
    /\ Done(r) /\ ~handlerRan[r] /\ calls[r] = <<>>
    /\ resp[r].kind = "error" /\ resp[r].error.prefix = "CORS not allowed"

RequiredNames == {"APS_CLIENT_ID", "APS_CLIENT_SECRET", "APS_BUCKET_KEY"}

MissingNames == {n \in RequiredNames : ~env[n]}

Range(seq) == {seq[i] : i \in 1..Len(seq)}

\* base64 read back (RFC 4648): the bytes a padded base64 text stands for
B64Index(c) == (CHOOSE i \in 1..64 : Base64Alphabet[i] = c) - 1

RECURSIVE B64Decode(_)
B64Decode(t) ==
    IF Len(t) < 4 THEN <<>>
    ELSE LET a == B64Index(t[1])
             b == B64Index(t[2])
             rest == B64Decode(SubSeq(t, 5, Len(t)))
         IN  IF t[3] = "=" THEN <<a * 4 + b \div 16>> \o rest
             ELSE LET c == B64Index(t[3])
                  IN  IF t[4] = "="
                      THEN <<a * 4 + b \div 16, (b % 16) * 16 + c \div 4>> \o rest
                      ELSE <<a * 4 + b \div 16, (b % 16) * 16 + c \div 4,
                             (c % 4) * 64 + B64Index(t[4])>> \o rest

IsBase64Of(t, bytes) ==
    /\ Len(t) = 4 * ((Len(bytes) + 2) \div 3)
    /\ \A i \in 1..Len(t) : t[i] \in Range(Base64Alphabet) \cup {"="}
    /\ B64Decode(t) = bytes

\* ^\d+-[A-Za-z0-9._-]+$
MatchesObjectNamePattern(s) ==
    \E k \in 1..Len(s) :
        /\ \A i \in 1..k : s[i] \in DigitChars
        /\ Len(s) >= k + 2
        /\ s[k + 1] = "-"
        /\ \A i \in (k + 2)..Len(s) : s[i] \in NameChars

RECURSIVE DigitsValue(_)
DigitsValue(d) ==
    IF Len(d) = 0 THEN 0
    ELSE 10 * DigitsValue(SubSeq(d, 1, Len(d) - 1))
         + (CHOOSE v \in 0..9 : Digits[v + 1] = d[Len(d)])

----------------------------------------------------------------------------
(* C1: every failed upstream call (a non-2xx status other than the 404 of   *)
(* container-details) of the steps token, container-details,               *)
(* container-create, upload and start-job gives the client that status and  *)
(* an error message that contains the upstream body text.                  *)
C1_StatusPropagated ==
    \A r \in Requests : \A i \in 1..Len(calls[r]) :
        (calls[r][i].step # "manifest" /\ Failed(calls[r][i])) =>
            /\ Done(r)
            /\ resp[r].kind = "error"
            /\ resp[r].status = calls[r][i].status
            /\ resp[r].error.text = calls[r][i].text

(* C2, as claimed: an upload-translate request with no file is answered     *)
(* with 400 and never causes an upstream call, whatever the configuration.  *)
C2_NoFileAlways400 ==
    \A r \in Requests :
        (IsUpload(r) /\ ~req[r].file.present) =>
            /\ calls[r] = <<>>
            /\ Done(r) => resp[r].status = 400

(* C2, amended: an upload-translate request with no file never causes an    *)
(* upstream call, and it is answered with 400 when its origin passes the    *)
(* boundary guard, whatever the required configuration values.              *)
C2_NoFile400 ==
    \A r \in Requests :
        (IsUpload(r) /\ ~req[r].file.present) =>
            /\ calls[r] = <<>>
            /\ (Done(r) /\ PassesGuard(r)) =>
                   (resp[r].status = 400 /\ resp[r].kind = "error")

C2_Witness ==
    \E r \in Requests :
        /\ IsUpload(r) /\ ~req[r].file.present /\ Done(r)
        /\ Len(req[r].origin) > 0 /\ Len(allowedOrigins) > 0
        /\ MissingNames = RequiredNames
        /\ resp[r].status = 400

(* C3: when the whole chain of an upload-translate request succeeded, the   *)
(* response is 200 with the base64 text of the object identifier that the   *)
(* request's own upload call returned, and the start-job call was given     *)
(* that same text.                                                          *)
C3_LocatorIsBase64 ==
    \A r \in Requests :
        (IsUpload(r) /\ HasCall(r, "job") /\ Success(CallOf(r, "job").status)) =>
            /\ Done(r)
            /\ resp[r].status = 200
            /\ resp[r].kind = "urn"
            /\ IsBase64Of(resp[r].urn, CallOf(r, "upload").objectId)
            /\ CallOf(r, "job").arg = resp[r].urn

C3_Witness ==
    \E r, q \in Requests :
        /\ r # q
        /\ StepsOf(r) = <<"token", "details", "create", "upload", "job">>
        /\ Done(r)
        /\ CallOf(r, "details").status = 404
        /\ CallOf(r, "upload").objectId = <<97, 98, 99>>
        /\ resp[r].urn = <<"Y", "W", "J", "j">>
        /\ Done(q)
        /\ HasCall(q, "upload")
        /\ CallOf(q, "upload").objectId = <<97>>
        /\ resp[q].urn = <<"Y", "Q", "=", "=">>

(* C4, as claimed: with a non-empty allow-list every request whose origin   *)
(* is not a member of the list is rejected before any handler runs; with    *)
(* an empty allow-list every request is accepted.                           *)
C4_NonMemberRejected ==
    \A r \in Requests :
        (pc[r] \notin {"idle", "cors"}) =>
            /\ (Len(allowedOrigins) > 0
                /\ ~Includes(allowedOrigins, req[r].origin)) => RejectedByGuard(r)
            /\ Len(allowedOrigins) = 0 => ~RejectedByGuard(r)

(* C4, amended: with a non-empty allow-list every request that declares an  *)
(* origin (a non-empty Origin header) that is not a member of the list is   *)
(* rejected before any handler runs and causes no upstream call; a request  *)
(* with no origin, a request whose origin is a member, and every request    *)
(* under an empty allow-list is accepted.                                   *)
C4_DeclaredNonMemberRejected ==
    \A r \in Requests :
        /\ (pc[r] \notin {"idle", "cors"}) =>
              IF /\ Len(allowedOrigins) > 0
                 /\ Len(req[r].origin) > 0
                 /\ ~Includes(allowedOrigins, req[r].origin)
              THEN RejectedByGuard(r)
              ELSE pc[r] = "route" \/ handlerRan[r]
        /\ (handlerRan[r] \/ calls[r] # <<>>) => PassesGuard(r)

C4_Witness ==
    \E r, q \in Requests :
        /\ env.APS_ALLOWED_ORIGINS = <<" ", "a", " ", ",", "b">>
        /\ allowedOrigins = << <<"a">>, <<"b">> >>
        /\ req[r].origin = <<"a">> /\ handlerRan[r]
        /\ req[q].origin = <<>> /\ handlerRan[q]

(* C5, as claimed: when some required configuration value is missing, the   *)
(* token endpoint answers 500 with a message that names exactly the         *)
(* missing values, and no upstream call is issued.                          *)
C5_MissingEnvAlwaysNamed ==
    \A r \in Requests :
        (IsTokenRequest(r) /\ MissingNames # {}) =>
            /\ calls[r] = <<>>
            /\ Done(r) =>
                  /\ resp[r].status = 500
                  /\ Range(resp[r].error.names) = MissingNames

(* C5, amended: when some required configuration value is missing, no       *)
(* upstream call is issued for a token request and it is answered with      *)
(* 500; when its origin passes the boundary guard, the message names        *)
(* exactly the missing values.                                              *)
C5_MissingEnvNamed ==
    \A r \in Requests :
        (IsTokenRequest(r) /\ MissingNames # {}) =>
            /\ calls[r] = <<>>
            /\ Done(r) =>
                  /\ resp[r].status = 500
                  /\ resp[r].kind = "error"
                  /\ PassesGuard(r) =>
                        /\ resp[r].error.prefix = "Missing env vars"
                        /\ Range(resp[r].error.names) = MissingNames
                        /\ Len(resp[r].error.names) = Cardinality(MissingNames)

C5_Witness ==
    \E r \in Requests :
        /\ IsTokenRequest(r) /\ Done(r) /\ handlerRan[r]
        /\ MissingNames = {"APS_CLIENT_ID", "APS_BUCKET_KEY"}
        /\ resp[r].error.names = <<"APS_CLIENT_ID", "APS_BUCKET_KEY">>

C8_ObjectNames ==
    /\ \A u \in stored :
          LET n == Len(u.objectName)
              k == n - Len(u.orig) - 1
          IN  /\ MatchesObjectNamePattern(u.objectName)
              /\ k >= 1
              /\ \A i \in 1..k : u.objectName[i] \in DigitChars
              /\ DigitsValue(SubSeq(u.objectName, 1, k)) = u.at
              /\ u.objectName[k + 1] = "-"
              /\ \A i \in 1..Len(u.orig) :
                    u.objectName[k + 1 + i] =
                        IF u.orig[i] \in NameChars THEN u.orig[i] ELSE "_"
    /\ \A u, v \in stored :
          (u.orig = v.orig /\ u.at # v.at) => u.objectName # v.objectName

C8_Witness ==
    \E u, v \in stored :
        /\ u.orig = <<"a", " ">> /\ v.orig = u.orig
        /\ u.at = 9 /\ v.at = 10
        /\ u.objectName = <<"9", "-", "a", "_">>
        /\ v.objectName = <<"1", "0", "-", "a", "_">>

(* C9: the upstream calls of an upload-translate request are issued in the  *)
(* order token, container-details, container-create (only after a details   *)
(* 404), upload, start-job, each only after the one before returned         *)
(* success; after the first failed call no further call is issued, no call  *)
(* is issued twice, and the response is an error and carries no locator.    *)
C9_SequentialNoRetry ==
    \A r \in Requests :
        IsUpload(r) =>
            LET L == calls[r]
                withCreate == <<"token", "details", "create", "upload", "job">>
                noCreate == <<"token", "details", "upload", "job">>
            IN  /\ \/ (Len(L) <= 5 /\ StepsOf(r) = SubSeq(withCreate, 1, Len(L)))
                   \/ (Len(L) <= 4 /\ StepsOf(r) = SubSeq(noCreate, 1, Len(L)))
                /\ \A i \in 2..Len(L) :
                      IF L[i].step = "create"
                      THEN L[i - 1].step = "details" /\ L[i - 1].status = 404
                      ELSE Success(L[i - 1].status)
                /\ \A i \in 1..Len(L) :
                      Failed(L[i]) =>
                          /\ i = Len(L)
                          /\ Done(r)
                          /\ resp[r].kind = "error"
                          /\ resp[r].urn = <<>>
                /\ \A i \in 1..Len(L) : ~Answered(L[i]) => (i = Len(L) /\ ~Done(r))
                /\ resp[r].kind = "urn" =>
                      (Len(L) >= 4 /\ \A i \in 1..Len(L) : ~Failed(L[i]))

C9_Witness ==
    \E r, q \in Requests :
        /\ IsUpload(r) /\ Done(r)
        /\ StepsOf(r) = <<"token", "details", "create", "upload">>
        /\ calls[r][4].status = 500
        /\ resp[r].kind = "error"
        /\ IsUpload(q) /\ Done(q)
        /\ StepsOf(q) = <<"token", "details">>
        /\ calls[q][2].status = 403

(* C10: against an upstream where details answers 200 iff the container     *)
(* exists and create rejects an existing container, no upload-translate     *)
(* request fails in its ensure-container step, whatever the interleaving.   *)
C10_EnsureSafeUnderRaces ==
    \A r \in Requests : \A i \in 1..Len(calls[r]) :
        calls[r][i].step \in {"details", "create"} => ~Failed(calls[r][i])

====
